---- MODULE Spec2Model ----
(***************************************************************************)
(* Session controller of the Ozon client, in its two variants:             *)
(*   "fresh"  src/src/ozon-client.js  - a new browser for every operation  *)
(*   "long"   src/unnamed/part_000    - one browser kept across operations *)
(* Every async method is a sequence of steps, one per await; a step is     *)
(* the synchronous code between two awaits.  Each task has a stack of      *)
(* labels (the positions of its pending method calls) and its locals.      *)
(***************************************************************************)
EXTENDS Integers, Sequences, FiniteSets, TLC

\* ------------------------------------------------------------------ bounds
MaxBrowsers == 2      \* browser processes the machine can run at once
MaxClock == 2         \* the clock stops here
MaxIds == 2           \* longest list given to getProductsList

Tasks == {1, 2}
BrowserIds == {1, 2, 3, 4}   \* names of processes: one more than the handles
ProductIds == 1..MaxIds
Keywords == {"Antibot", "Captcha", "ogranichen"}   \* "ogranichen" is the Cyrillic word
NoTitle == {"none"}
Titles == {{}} \cup {{k} : k \in Keywords}  \* a title, as the keywords it includes
H1s == {"null", "restricted", "name"}  \* h1 text: absent, 'access restricted', a name
Hrefs == {0, 1, 2}    \* a product link, by the id its href yields (0: none)
\* what surrounds the link: a container whose text has a price line, one whose
\* text has none, one whose text cannot be read (reading it raises), and no
\* container at all
Bodies == {"priced", "unpriced", "raises", "detached"}
Candidates(bodies) ==
  {[href |-> 0, body |-> "priced"]} \cup [href : Hrefs \ {0}, body : bodies]
DomsOf(C) == {<<>>} \cup [1..1 -> C] \cup [1..2 -> C]
\* the documents the searches are run on; the long-lived client falls back to
\* the link's grandparent, which every link of a document has
Doms == DomsOf(Candidates(Bodies))
LDoms == DomsOf(Candidates(Bodies \ {"detached"}))
Limits == {1, 2}
IdLists == {[i \in 1..n |-> i] : n \in 0..MaxIds}

\* homepageVisitInterval, in ms; one tick of the clock is 300 s, which is more
\* than a warm-up takes (a navigation of at most 90 s and waits of about 13 s)
homepageVisitInterval == 5 * 60 * 1000
MsPerTick == 300 * 1000

VARIABLES
  variant,            \* which class the controller is an instance of
  browser, context, page,   \* this.browser, this.context, this.page (0: null)
  isInitialized, lastHomepageVisit,  \* long-lived client only
  alive,              \* processes launched, not yet closed, that a handle names
  orphans,            \* number of processes launched, not yet closed, out of reach
  title,              \* title of the page of each browser
  clock,              \* Date.now(), in ticks
  stk, loc,           \* per task: stack of labels, locals
  op, result,         \* per task: the public operation and how it ended
  warmed,             \* history: sessions whose homepage warm-up completed
  targeted,           \* history: sessions the running operation navigated to a target
  lastWarmStart,      \* history: start instant of the last completed warm-up
  resetSince          \* history: timestamp zeroed by a block since then

vars == <<variant, browser, context, page, isInitialized, lastHomepageVisit,
          alive, orphans, title, clock, stk, loc, op, result, warmed, targeted,
          lastWarmStart, resetSince>>

fields == <<browser, context, page, isInitialized>>
hist == <<warmed, targeted, lastWarmStart, resetSince>>

\* ------------------------------------------------------------------ helpers
NoResult == [kind |-> "none", val |-> <<>>, err |-> "none"]
NoOp == [name |-> "none", ids |-> <<>>, limit |-> 0]
Loc0 == [ret |-> <<>>, err |-> "none", lpage |-> 0, ltitle |-> NoTitle,
         url |-> "none", now |-> 0, force |-> FALSE, ids |-> <<>>,
         results |-> <<>>, cur |-> 0, prod |-> <<>>, t1 |-> NoTitle,
         t2 |-> NoTitle, attempts |-> 0, trace |-> <<>>, startClock |-> 0,
         startInit |-> FALSE, startWarm |-> 0, startReset |-> FALSE,
         document |-> {}, overlapped |-> FALSE]

\* what stays of the locals once the public operation has ended
Keep(l) ==
  [Loc0 EXCEPT !.t1 = l.t1, !.t2 = l.t2, !.attempts = l.attempts, !.trace = l.trace,
               !.startClock = l.startClock, !.startInit = l.startInit,
               !.startWarm = l.startWarm, !.startReset = l.startReset,
               !.document = l.document, !.overlapped = l.overlapped]

\* the locals of a call of getProductDetails end with the call
EndCall(l) == [Loc0 EXCEPT !.ids = l.ids, !.results = l.results]

Min(S) == CHOOSE x \in S : \A y \in S : x <= y
Top(t) == Head(stk[t])
At(t, l) == stk[t] # <<>> /\ Top(t) = l
Idle == \A t \in Tasks : stk[t] = <<>>

\* ids no process and no handle uses: the next launch takes the smallest
FreeIds == BrowserIds \ (alive \cup {browser, context, page}
                               \cup {loc[t].lpage : t \in Tasks})

\* try/catch: the catch label of each position inside a try block
Handler(l) ==
  CASE l \in {"F_s_check", "F_s_blocked", "F_s_eval", "F_s_ret"} -> "F_s_catch"
    [] l \in {"F_gp_home", "F_gp_goto", "F_gp_title", "F_gp_blocked",
              "F_gp_eval", "F_gp_ret"} -> "F_gp_catch"
    [] l \in {"F_gc_eval", "F_gc_ret"} -> "F_gc_catch"
    [] l = "F_gl_push" -> "F_gl_catch"
    [] l = "L_gl_push" -> "L_gl_catch"
    [] OTHER -> "none"

RECURSIVE Unwind(_)
Unwind(s) ==
  IF s = <<>> THEN <<>>
  ELSE IF Handler(Head(s)) # "none" THEN <<Handler(Head(s))>> \o Tail(s)
  ELSE Unwind(Tail(s))

\* replace the top label by `frames` (a jump, or a call with its continuation)
Step(t, frames, l) ==
  /\ stk' = [stk EXCEPT ![t] = frames \o Tail(stk[t])]
  /\ loc' = [loc EXCEPT ![t] = l]
  /\ result' = result

\* return v to the caller; a public operation's return is its result
Ret(t, v, l) ==
  /\ stk' = [stk EXCEPT ![t] = Tail(stk[t])]
  /\ loc' = [loc EXCEPT ![t] = IF Len(stk[t]) = 1 THEN Keep(l) ELSE [l EXCEPT !.ret = v]]
  /\ result' = IF Len(stk[t]) = 1
               THEN [result EXCEPT ![t] = [kind |-> "returned", val |-> v, err |-> "none"]]
               ELSE result

\* throw e: unwind to the nearest catch, or out of the public operation
Throw(t, e, l) ==
  /\ stk' = [stk EXCEPT ![t] = Unwind(stk[t])]
  /\ loc' = [loc EXCEPT ![t] = IF Unwind(stk[t]) = <<>> THEN Keep(l) ELSE [l EXCEPT !.err = e]]
  /\ result' = IF Unwind(stk[t]) = <<>>
               THEN [result EXCEPT ![t] = [kind |-> "threw", val |-> <<>>, err |-> e]]
               ELSE result

\* a public operation begins on task t
Begin(t, name, ids, limit, frames, l) ==
  /\ stk' = [stk EXCEPT ![t] = frames]
  /\ op' = [op EXCEPT ![t] = [name |-> name, ids |-> ids, limit |-> limit]]
  /\ result' = [result EXCEPT ![t] = NoResult]
  /\ loc' = [loc EXCEPT ![t] = l]

\* callers serialize access to one controller; the caller has taken the result
\* of the operation before
CanStart(t) == t = 1 /\ Idle /\ \A u \in Tasks : op[u] = NoOp

\* the locals of a call of search or getProductDetails
CallLoc(l, u) ==
  [l EXCEPT !.url = u, !.t1 = NoTitle, !.t2 = NoTitle, !.attempts = 0, !.trace = <<>>]

\* history: what the controller held when a search began
SearchLoc(l) ==
  [l EXCEPT !.startClock = clock, !.startInit = isInitialized,
            !.startWarm = lastWarmStart, !.startReset = resetSince]

\* time passes during a navigation or a wait; only the long-lived client reads it
Elapse ==
  clock' \in IF variant = "long" /\ clock < MaxClock THEN {clock, clock + 1} ELSE {clock}

\* ------------------------------------------------------------------ titles
\* mutation of FBlocked: only the first of the two keywords is looked for
FBlockedAntibotOnly(ttl) == "Antibot" \in ttl

\* fresh-session client: title.includes('Antibot') || title.includes('ogranichen')
FBlocked(ttl) == "Antibot" \in ttl \/ "ogranichen" \in ttl

\* long-lived client: hasCaptcha
hasCaptcha(ttl) == "Antibot" \in ttl \/ "Captcha" \in ttl \/ "ogranichen" \in ttl

\* ------------------------------------------------------------------ extraction
\* the price of a candidate: the number of the first line with the currency
\* sign, null when there is no such line or no number in it
Price(c) == IF c.body = "priced" THEN "number" ELSE "null"

\* mutation of ExtractItems: the try is around the loop, so the first candidate
\* that raises ends the extraction
RECURSIVE ExtractItemsStopAtError(_, _, _, _)
ExtractItemsStopAtError(links, items, seen, maxResults) ==
  IF links = <<>> \/ Len(items) >= maxResults THEN items
  ELSE LET c == Head(links)
       IN IF c.href = 0 \/ c.href \in seen
          THEN ExtractItemsStopAtError(Tail(links), items, seen, maxResults)
          ELSE IF c.body = "raises" THEN items
          ELSE IF c.body = "detached"
          THEN ExtractItemsStopAtError(Tail(links), items, seen \cup {c.href}, maxResults)
          ELSE ExtractItemsStopAtError(Tail(links),
                            Append(items, [id |-> c.href, title |-> "name",
                                           error |-> "none", price |-> Price(c)]),
                            seen \cup {c.href}, maxResults)

\* search's page.evaluate: one record per product link, first occurrence of an
\* id only, a link without id skipped, at most maxResults. An id is seen from
\* the moment it is read, so before the container is looked for and before
\* anything in the try block can raise; the catch skips the candidate.
RECURSIVE ExtractItems(_, _, _, _)
ExtractItems(links, items, seen, maxResults) ==
  IF links = <<>> \/ Len(items) >= maxResults THEN items
  ELSE LET c == Head(links)
       IN IF c.href = 0 \/ c.href \in seen
          THEN ExtractItems(Tail(links), items, seen, maxResults)
          ELSE IF c.body \in {"detached", "raises"}
          THEN ExtractItems(Tail(links), items, seen \cup {c.href}, maxResults)
          ELSE ExtractItems(Tail(links),
                            Append(items, [id |-> c.href, title |-> "name",
                                           error |-> "none", price |-> Price(c)]),
                            seen \cup {c.href}, maxResults)

\* mutation of ExtractCards: an id already seen is not skipped
RECURSIVE ExtractCardsUnseen(_, _, _, _)
ExtractCardsUnseen(cards, items, seen, maxResults) ==
  IF cards = <<>> \/ Len(items) >= maxResults THEN items
  ELSE LET c == Head(cards)
       IN IF c.href = 0
          THEN ExtractCardsUnseen(Tail(cards), items, seen, maxResults)
          ELSE IF c.body = "raises"
          THEN ExtractCardsUnseen(Tail(cards), items, seen, maxResults)
          ELSE ExtractCardsUnseen(Tail(cards),
                            Append(items, [id |-> c.href, title |-> "name",
                                           error |-> "none", price |-> Price(c)]),
                            seen, maxResults)

\* search's page.evaluate of the long-lived client: the cards' product links,
\* a card without link id skipped, an id already seen skipped, at most
\* maxResults; the catch skips a card whose text cannot be read
RECURSIVE ExtractCards(_, _, _, _)
ExtractCards(cards, items, seen, maxResults) ==
  IF cards = <<>> \/ Len(items) >= maxResults THEN items
  ELSE LET c == Head(cards)
       IN IF c.href = 0 \/ c.href \in seen
          THEN ExtractCards(Tail(cards), items, seen, maxResults)
          ELSE IF c.body = "raises"
          THEN ExtractCards(Tail(cards), items, seen \cup {c.href}, maxResults)
          ELSE ExtractCards(Tail(cards),
                            Append(items, [id |-> c.href, title |-> "name",
                                           error |-> "none", price |-> Price(c)]),
                            seen \cup {c.href}, maxResults)

\* ------------------------------------------------------------------ fresh-session client
\* close(): sync part, up to `await this.browser.close()`
FClose(t) ==
  /\ At(t, "F_close")
  /\ IF browser # 0
     THEN /\ alive' = alive \ {browser}
          /\ title' = [title EXCEPT ![browser] = NoTitle]
          /\ warmed' = warmed \ {browser}
          /\ targeted' = targeted \ {browser}
          /\ Step(t, <<"F_close_done">>, loc[t])
     ELSE /\ Ret(t, <<>>, loc[t])
          /\ UNCHANGED <<alive, title, warmed, targeted>>
  /\ UNCHANGED <<variant, fields, lastHomepageVisit, orphans, clock, op, lastWarmStart,
                 resetSince>>

\* close(): after the await (an error of browser.close() is ignored)
FCloseDone(t) ==
  /\ At(t, "F_close_done")
  /\ browser' = 0
  /\ context' = 0
  /\ page' = 0
  /\ Ret(t, <<>>, loc[t])
  /\ UNCHANGED <<variant, isInitialized, lastHomepageVisit, alive, orphans, title, clock, op, hist>>

\* createBrowser(): await this.close()
FCreateBrowser(t) ==
  /\ At(t, "F_cb")
  /\ Step(t, <<"F_close", "F_cb_launch">>, loc[t])
  /\ UNCHANGED <<variant, fields, lastHomepageVisit, alive, orphans, title, clock, op, hist>>

\* createBrowser(): this.browser = await chromium.launch(...)
FLaunch(t) ==
  /\ At(t, "F_cb_launch")
  /\ \/ /\ FreeIds # {}
        /\ Cardinality(alive) + orphans < MaxBrowsers
        /\ LET b == Min(FreeIds)
           IN /\ browser' = b
              /\ alive' = alive \cup {b}
        /\ Step(t, <<"F_cb_ctx">>, loc[t])
     \/ /\ Throw(t, "launch", loc[t])
        /\ UNCHANGED <<browser, alive>>
  /\ UNCHANGED <<variant, context, page, isInitialized, lastHomepageVisit, orphans,
                 title, clock, op, hist>>

\* createBrowser(): this.context = await this.browser.newContext(...)
FNewContext(t) ==
  /\ At(t, "F_cb_ctx")
  /\ IF browser = 0 THEN Throw(t, "typeerror", loc[t]) /\ UNCHANGED context
     ELSE IF browser \notin alive THEN Throw(t, "closed", loc[t]) /\ UNCHANGED context
     ELSE \/ context' = browser /\ Step(t, <<"F_cb_page">>, loc[t])
          \/ Throw(t, "context", loc[t]) /\ UNCHANGED context
  /\ UNCHANGED <<variant, browser, page, isInitialized, lastHomepageVisit, alive,
                 orphans, title, clock, op, hist>>

\* createBrowser(): this.page = await this.context.newPage(); return this.page
FNewPage(t) ==
  /\ At(t, "F_cb_page")
  /\ IF context = 0 THEN Throw(t, "typeerror", loc[t]) /\ UNCHANGED page
     ELSE IF context \notin alive THEN Throw(t, "closed", loc[t]) /\ UNCHANGED page
     ELSE \/ page' = context /\ Step(t, <<>>, [loc[t] EXCEPT !.lpage = context])
          \/ Throw(t, "page", loc[t]) /\ UNCHANGED page
  /\ UNCHANGED <<variant, browser, context, isInitialized, lastHomepageVisit, alive,
                 orphans, title, clock, op, hist>>

\* loadPage(url): const page = await this.createBrowser()
FLoadPage(t) ==
  /\ At(t, "F_lp")
  /\ Step(t, <<"F_cb", "F_lp_goto">>, loc[t])
  /\ UNCHANGED <<variant, fields, lastHomepageVisit, alive, orphans, title, clock, op, hist>>

\* loadPage(url): await page.goto(url, {timeout: 90000})
FGoto(t) ==
  /\ At(t, "F_lp_goto")
  /\ LET p == loc[t].lpage
     IN IF p \notin alive
        THEN Throw(t, "closed", loc[t]) /\ UNCHANGED <<title, targeted>>
        ELSE \/ /\ \E ttl \in Titles : title' = [title EXCEPT ![p] = ttl]
                /\ targeted' = IF loc[t].url = "target" THEN targeted \cup {p} ELSE targeted
                /\ Step(t, <<"F_lp_title">>,
                        [loc[t] EXCEPT !.trace = IF loc[t].url = "target"
                                                 THEN Append(@, "nav") ELSE @])
             \/ /\ Throw(t, "timeout", [loc[t] EXCEPT !.trace = Append(@, "timeout")])
                /\ UNCHANGED <<title, targeted>>
  /\ UNCHANGED <<variant, fields, lastHomepageVisit, alive, orphans, clock, op, warmed,
                 lastWarmStart, resetSince>>

\* loadPage(url): await page.waitForTimeout(waitTime); title = await page.title()
FTitle(t) ==
  /\ At(t, "F_lp_title")
  /\ LET p == loc[t].lpage
     IN IF p \notin alive
        THEN Throw(t, "closed", loc[t]) /\ UNCHANGED warmed
        ELSE /\ warmed' = IF loc[t].url = "home" THEN warmed \cup {p} ELSE warmed
             /\ Step(t, <<>>, [loc[t] EXCEPT !.ltitle = title[p],
                                             !.trace = IF loc[t].url = "home"
                                                       THEN Append(@, "warm") ELSE @])
  /\ UNCHANGED <<variant, fields, lastHomepageVisit, alive, orphans, title, clock, op,
                 targeted, lastWarmStart, resetSince>>

\* ---- search(query, options)
FSearch(t) ==
  /\ variant = "fresh"
  /\ CanStart(t)
  /\ \E lim \in Limits :
       Begin(t, "search", <<>>, lim, <<"F_lp", "F_s_check">>, CallLoc(Loc0, "target"))
  /\ UNCHANGED <<variant, fields, lastHomepageVisit, alive, orphans, title, clock, hist>>

\* search: the block check on the title loadPage returned
FSearchCheck(t) ==
  /\ At(t, "F_s_check")
  /\ LET l == [loc[t] EXCEPT !.t1 = loc[t].ltitle,
                             !.trace = Append(@, IF FBlocked(loc[t].ltitle)
                                                 THEN "blocked" ELSE "clear")]
     IN IF FBlocked(loc[t].ltitle)
        THEN Step(t, <<"F_close", "F_s_blocked">>, l)
        ELSE Step(t, <<"F_s_eval">>, l)
  /\ UNCHANGED <<variant, fields, lastHomepageVisit, alive, orphans, title, clock, op, hist>>

\* search: return [] after the close of the blocked page
FSearchBlocked(t) ==
  /\ At(t, "F_s_blocked")
  /\ Ret(t, <<>>, loc[t])
  /\ UNCHANGED <<variant, fields, lastHomepageVisit, alive, orphans, title, clock, op, hist>>

\* search: products = await page.evaluate(...), then await this.close()
FSearchEval(t) ==
  /\ At(t, "F_s_eval")
  /\ IF loc[t].lpage \notin alive THEN Throw(t, "closed", loc[t])
     ELSE \/ \E dom \in Doms :
               Step(t, <<"F_close", "F_s_ret">>,
                    [loc[t] EXCEPT !.prod = ExtractItems(dom, <<>>, {}, op[t].limit),
                                   !.document = {dom},
                                   !.trace = Append(@, "extract")])
          \/ Throw(t, "evaluate", loc[t])
  /\ UNCHANGED <<variant, fields, lastHomepageVisit, alive, orphans, title, clock, op, hist>>

FSearchRet(t) ==
  /\ At(t, "F_s_ret")
  /\ Ret(t, loc[t].prod, loc[t])
  /\ UNCHANGED <<variant, fields, lastHomepageVisit, alive, orphans, title, clock, op, hist>>

\* mutation of FSearchCatch: the catch rethrows without closing
FSearchCatchNoClose(t) ==
  /\ At(t, "F_s_catch")
  /\ Step(t, <<"F_s_rethrow">>, loc[t])
  /\ UNCHANGED <<variant, fields, lastHomepageVisit, alive, orphans, title, clock, op, hist>>

\* search: catch (error) { await this.close(); throw error; }
FSearchCatch(t) ==
  /\ At(t, "F_s_catch")
  /\ Step(t, <<"F_close", "F_s_rethrow">>, loc[t])
  /\ UNCHANGED <<variant, fields, lastHomepageVisit, alive, orphans, title, clock, op, hist>>

FSearchRethrow(t) ==
  /\ At(t, "F_s_rethrow")
  /\ Throw(t, loc[t].err, loc[t])
  /\ UNCHANGED <<variant, fields, lastHomepageVisit, alive, orphans, title, clock, op, hist>>

\* ---- getProductDetails(productIdOrUrl)
FGetProductDetails(t) ==
  /\ variant = "fresh"
  /\ CanStart(t)
  /\ \E id \in ProductIds :
       Begin(t, "getProductDetails", <<id>>, 0, <<"F_lp", "F_gp_home">>,
             [CallLoc(Loc0, "home") EXCEPT !.cur = id])
  /\ UNCHANGED <<variant, fields, lastHomepageVisit, alive, orphans, title, clock, hist>>

\* getProductDetails: homeTitle = await homePage.title()
FProductHome(t) ==
  /\ At(t, "F_gp_home")
  /\ IF loc[t].lpage \notin alive THEN Throw(t, "closed", loc[t])
     ELSE Step(t, <<"F_gp_goto">>, loc[t])
  /\ UNCHANGED <<variant, fields, lastHomepageVisit, alive, orphans, title, clock, op, hist>>

\* getProductDetails: await homePage.goto(url, {timeout: 90000})
FProductGoto(t) ==
  /\ At(t, "F_gp_goto")
  /\ LET p == loc[t].lpage
     IN IF p \notin alive
        THEN Throw(t, "closed", loc[t]) /\ UNCHANGED <<title, targeted>>
        ELSE \/ /\ \E ttl \in Titles : title' = [title EXCEPT ![p] = ttl]
                /\ targeted' = targeted \cup {p}
                /\ Step(t, <<"F_gp_title">>, [loc[t] EXCEPT !.trace = Append(@, "nav")])
             \/ /\ Throw(t, "timeout", [loc[t] EXCEPT !.trace = Append(@, "timeout")])
                /\ UNCHANGED <<title, targeted>>
  /\ UNCHANGED <<variant, fields, lastHomepageVisit, alive, orphans, clock, op, warmed,
                 lastWarmStart, resetSince>>

\* getProductDetails: waitForTimeout(15000); productTitle = await homePage.title();
\* the block check
FProductTitle(t) ==
  /\ At(t, "F_gp_title")
  /\ LET p == loc[t].lpage
     IN IF p \notin alive THEN Throw(t, "closed", loc[t])
        ELSE LET l == [loc[t] EXCEPT !.t1 = title[p],
                                     !.trace = Append(@, IF FBlocked(title[p])
                                                         THEN "blocked" ELSE "clear")]
             IN IF FBlocked(title[p])
                THEN Step(t, <<"F_close", "F_gp_blocked">>, l)
                ELSE Step(t, <<"F_gp_eval">>, l)
  /\ UNCHANGED <<variant, fields, lastHomepageVisit, alive, orphans, title, clock, op, hist>>

\* getProductDetails: throw new Error('Product page blocked by antibot')
FProductBlocked(t) ==
  /\ At(t, "F_gp_blocked")
  /\ Throw(t, "blocked", loc[t])
  /\ UNCHANGED <<variant, fields, lastHomepageVisit, alive, orphans, title, clock, op, hist>>

\* getProductDetails: product = await homePage.evaluate(...); product.id from
\* the final URL (null when it holds no -digits); await this.close()
FProductEval(t) ==
  /\ At(t, "F_gp_eval")
  /\ IF loc[t].lpage \notin alive THEN Throw(t, "closed", loc[t])
     ELSE \/ \E h1 \in H1s, id \in {0, loc[t].cur} :
               Step(t, <<"F_close", "F_gp_ret">>,
                    [loc[t] EXCEPT !.prod = <<[id |-> id, title |-> h1, error |-> "none"]>>,
                                   !.trace = Append(@, "extract")])
          \/ Throw(t, "evaluate", loc[t])
  /\ UNCHANGED <<variant, fields, lastHomepageVisit, alive, orphans, title, clock, op, hist>>

FProductRet(t) ==
  /\ At(t, "F_gp_ret")
  /\ Ret(t, loc[t].prod, loc[t])
  /\ UNCHANGED <<variant, fields, lastHomepageVisit, alive, orphans, title, clock, op, hist>>

\* getProductDetails: catch (error) { await this.close(); throw error; }
FProductCatch(t) ==
  /\ At(t, "F_gp_catch")
  /\ Step(t, <<"F_close", "F_gp_rethrow">>, loc[t])
  /\ UNCHANGED <<variant, fields, lastHomepageVisit, alive, orphans, title, clock, op, hist>>

\* mutation of FProductRethrow: the catch reports every error as a block
FProductRethrowAsBlocked(t) ==
  /\ At(t, "F_gp_rethrow")
  /\ Throw(t, "blocked", loc[t])
  /\ UNCHANGED <<variant, fields, lastHomepageVisit, alive, orphans, title, clock, op, hist>>

FProductRethrow(t) ==
  /\ At(t, "F_gp_rethrow")
  /\ Throw(t, loc[t].err, loc[t])
  /\ UNCHANGED <<variant, fields, lastHomepageVisit, alive, orphans, title, clock, op, hist>>

\* ---- getProductsList(productIds)
FGetProductsList(t) ==
  /\ variant = "fresh"
  /\ CanStart(t)
  /\ \E ids \in IdLists :
       Begin(t, "getProductsList", ids, 0, <<"F_gl_loop">>, [Loc0 EXCEPT !.ids = ids])
  /\ UNCHANGED <<variant, fields, lastHomepageVisit, alive, orphans, title, clock, hist>>

\* getProductsList: for (const id of productIds) { try { await getProductDetails(id)
FListLoop(t) ==
  /\ At(t, "F_gl_loop")
  /\ IF loc[t].ids = <<>>
     THEN Ret(t, loc[t].results, loc[t])
     ELSE Step(t, <<"F_lp", "F_gp_home", "F_gl_push">>,
               [CallLoc(loc[t], "home") EXCEPT !.cur = Head(loc[t].ids),
                                               !.ids = Tail(loc[t].ids)])
  /\ UNCHANGED <<variant, fields, lastHomepageVisit, alive, orphans, title, clock, op, hist>>

\* getProductsList: results.push(product)
FListPush(t) ==
  /\ At(t, "F_gl_push")
  /\ Step(t, <<"F_gl_loop">>,
          EndCall([loc[t] EXCEPT !.results = Append(@, Head(loc[t].ret))]))
  /\ UNCHANGED <<variant, fields, lastHomepageVisit, alive, orphans, title, clock, op, hist>>

\* getProductsList: catch (e) { results.push({ id, error: e.message }) }
FListCatch(t) ==
  /\ At(t, "F_gl_catch")
  /\ Step(t, <<"F_gl_loop">>,
          EndCall([loc[t] EXCEPT !.results = Append(@, [id |-> loc[t].cur, title |-> "null",
                                                        error |-> loc[t].err])]))
  /\ UNCHANGED <<variant, fields, lastHomepageVisit, alive, orphans, title, clock, op, hist>>

\* ---- getCategories()
FGetCategories(t) ==
  /\ variant = "fresh"
  /\ CanStart(t)
  /\ Begin(t, "getCategories", <<>>, 0, <<"F_lp", "F_gc_eval">>, CallLoc(Loc0, "home"))
  /\ UNCHANGED <<variant, fields, lastHomepageVisit, alive, orphans, title, clock, hist>>

\* getCategories() called without waiting for the operation another caller
\* has started on the same controller (or for its result to be taken); the
\* call notes whether that operation was still running
FGetCategoriesOverlapped(t) ==
  /\ variant = "fresh"
  /\ stk[t] = <<>> /\ op[t] = NoOp
  /\ Begin(t, "getCategories", <<>>, 0, <<"F_lp", "F_gc_eval">>,
           [CallLoc(Loc0, "home")
              EXCEPT !.overlapped = \E u \in Tasks \ {t} : stk[u] # <<>>])
  /\ UNCHANGED <<variant, fields, lastHomepageVisit, alive, orphans, title, clock, hist>>

\* getCategories: categories = await page.evaluate(...); await this.close()
FCategoriesEval(t) ==
  /\ At(t, "F_gc_eval")
  /\ IF loc[t].lpage \notin alive THEN Throw(t, "closed", loc[t])
     ELSE \/ Step(t, <<"F_close", "F_gc_ret">>, loc[t])
          \/ Throw(t, "evaluate", loc[t])
  /\ UNCHANGED <<variant, fields, lastHomepageVisit, alive, orphans, title, clock, op, hist>>

FCategoriesRet(t) ==
  /\ At(t, "F_gc_ret")
  /\ Ret(t, <<>>, loc[t])
  /\ UNCHANGED <<variant, fields, lastHomepageVisit, alive, orphans, title, clock, op, hist>>

\* mutation of FCategoriesCatch: the catch rethrows without closing
FCategoriesCatchNoClose(t) ==
  /\ At(t, "F_gc_catch")
  /\ Step(t, <<"F_gc_rethrow">>, loc[t])
  /\ UNCHANGED <<variant, fields, lastHomepageVisit, alive, orphans, title, clock, op, hist>>

\* getCategories: catch (error) { await this.close(); throw error; }
FCategoriesCatch(t) ==
  /\ At(t, "F_gc_catch")
  /\ Step(t, <<"F_close", "F_gc_rethrow">>, loc[t])
  /\ UNCHANGED <<variant, fields, lastHomepageVisit, alive, orphans, title, clock, op, hist>>

FCategoriesRethrow(t) ==
  /\ At(t, "F_gc_rethrow")
  /\ Throw(t, loc[t].err, loc[t])
  /\ UNCHANGED <<variant, fields, lastHomepageVisit, alive, orphans, title, clock, op, hist>>


\* ---- setLocation(city): return {success: true, city, note}
FSetLocation(t) ==
  /\ variant = "fresh"
  /\ CanStart(t)
  /\ Begin(t, "setLocation", <<>>, 0, <<"F_sl_ret">>, Loc0)
  /\ UNCHANGED <<variant, fields, lastHomepageVisit, alive, orphans, title, clock, hist>>

FLocationRet(t) ==
  /\ At(t, "F_sl_ret")
  /\ Ret(t, <<[id |-> 0, title |-> "success", error |-> "none"]>>, loc[t])
  /\ UNCHANGED <<variant, fields, lastHomepageVisit, alive, orphans, title, clock, op, hist>>

\* ---- getFilters(query): return {query, sortOptions, priceFilter, note}
FGetFilters(t) ==
  /\ variant = "fresh"
  /\ CanStart(t)
  /\ Begin(t, "getFilters", <<>>, 0, <<"F_gf_ret">>, Loc0)
  /\ UNCHANGED <<variant, fields, lastHomepageVisit, alive, orphans, title, clock, hist>>

FFiltersRet(t) ==
  /\ At(t, "F_gf_ret")
  /\ Ret(t, <<>>, loc[t])
  /\ UNCHANGED <<variant, fields, lastHomepageVisit, alive, orphans, title, clock, op, hist>>

\* ---- close(), called by the user
FCloseOp(t) ==
  /\ variant = "fresh"
  /\ CanStart(t)
  /\ Begin(t, "close", <<>>, 0, <<"F_close">>, Loc0)
  /\ UNCHANGED <<variant, fields, lastHomepageVisit, alive, orphans, title, clock, hist>>

\* ------------------------------------------------------------------ long-lived client
\* mutation of SkipVisit: the window includes its boundary
SkipVisitInclusive(force, now, last) ==
  ~force /\ (now - last) * MsPerTick <= homepageVisitInterval /\ last > 0

\* what the clock and the timestamp let a non-forced visitHomepage skip:
\* !force && now - lastHomepageVisit < homepageVisitInterval && lastHomepageVisit > 0
SkipVisit(force, now, last) ==
  ~force /\ (now - last) * MsPerTick < homepageVisitInterval /\ last > 0

\* init(): if (this.isInitialized) return
LInit(t) ==
  /\ At(t, "L_init")
  /\ IF isInitialized THEN Step(t, <<>>, loc[t])
     ELSE Step(t, <<"L_init_launch">>, loc[t])
  /\ UNCHANGED <<variant, fields, lastHomepageVisit, alive, orphans, title, clock, op, hist>>

\* the handles become b, c, p: a live process no handle names is out of reach
LHandles(b, c, p, live) ==
  /\ browser' = b
  /\ context' = c
  /\ page' = p
  /\ alive' = live \cap {b, c, p}
  /\ orphans' = orphans + Cardinality(live \ {b, c, p})
  /\ title' = [x \in BrowserIds |-> IF x \in {b, c, p} THEN title[x] ELSE NoTitle]
  /\ warmed' = warmed \cap {b, c, p}
  /\ targeted' = targeted \cap {b, c, p}

\* init(): this.browser = await chromium.launch(...)
LLaunch(t) ==
  /\ At(t, "L_init_launch")
  /\ \/ /\ Cardinality(alive) + orphans < MaxBrowsers
        /\ LET b == Min(BrowserIds \ {browser, context, page})
           IN LHandles(b, context, page, alive \cup {b})
        /\ Step(t, <<"L_init_ctx">>, loc[t])
     \/ /\ Throw(t, "launch", loc[t])
        /\ UNCHANGED <<browser, context, page, alive, orphans, title, warmed, targeted>>
  /\ UNCHANGED <<variant, isInitialized, lastHomepageVisit, clock, op, lastWarmStart,
                 resetSince>>

\* init(): this.context = await this.browser.newContext(...)
LNewContext(t) ==
  /\ At(t, "L_init_ctx")
  /\ \/ /\ LHandles(browser, browser, page, alive)
        /\ Step(t, <<"L_init_page">>, loc[t])
     \/ /\ Throw(t, "context", loc[t])
        /\ UNCHANGED <<browser, context, page, alive, orphans, title, warmed, targeted>>
  /\ UNCHANGED <<variant, isInitialized, lastHomepageVisit, clock, op, lastWarmStart,
                 resetSince>>

\* init(): this.page = await this.context.newPage(); addInitScript;
\* await this.visitHomepage()
LNewPage(t) ==
  /\ At(t, "L_init_page")
  /\ \/ /\ LHandles(browser, context, context, alive)
        /\ Step(t, <<"L_vh", "L_init_done">>, [loc[t] EXCEPT !.force = FALSE])
     \/ /\ Throw(t, "page", loc[t])
        /\ UNCHANGED <<browser, context, page, alive, orphans, title, warmed, targeted>>
  /\ UNCHANGED <<variant, isInitialized, lastHomepageVisit, clock, op, lastWarmStart,
                 resetSince>>

\* init(): this.isInitialized = true
LInitDone(t) ==
  /\ At(t, "L_init_done")
  /\ isInitialized' = TRUE
  /\ Step(t, <<>>, loc[t])
  /\ UNCHANGED <<variant, browser, context, page, lastHomepageVisit, alive, orphans,
                 title, clock, op, hist>>

\* visitHomepage(force): const now = Date.now(); skip if visited recently
LVisitHomepage(t) ==
  /\ At(t, "L_vh")
  /\ IF SkipVisit(loc[t].force, clock, lastHomepageVisit)
     THEN Step(t, <<>>, [loc[t] EXCEPT !.trace = Append(@, "skip")])
     ELSE Step(t, <<"L_vh_goto">>, [loc[t] EXCEPT !.now = clock])
  /\ UNCHANGED <<variant, fields, lastHomepageVisit, alive, orphans, title, clock, op, hist>>

\* mutation of LHomeGoto: the timestamp is written before the navigation
LHomeGotoStampFirst(t) ==
  /\ At(t, "L_vh_goto")
  /\ lastHomepageVisit' = loc[t].now
  /\ LET l == [loc[t] EXCEPT !.attempts = @ + 1]
     IN IF page = 0 THEN Throw(t, "typeerror", l) /\ UNCHANGED <<title, clock>>
        ELSE IF page \notin alive THEN Throw(t, "closed", l) /\ UNCHANGED <<title, clock>>
        ELSE \/ /\ \E ttl \in Titles : title' = [title EXCEPT ![page] = ttl]
                /\ Elapse
                /\ Step(t, <<"L_vh_wait">>, l)
             \/ /\ Throw(t, "timeout", [l EXCEPT !.trace = Append(@, "timeout")])
                /\ Elapse
                /\ UNCHANGED title
  /\ UNCHANGED <<variant, fields, alive, orphans, op, hist>>

\* visitHomepage: await this.page.goto('https://www.ozon.ru/', {timeout: 90000})
LHomeGoto(t) ==
  /\ At(t, "L_vh_goto")
  /\ LET l == [loc[t] EXCEPT !.attempts = @ + 1]
     IN IF page = 0 THEN Throw(t, "typeerror", l) /\ UNCHANGED <<title, clock>>
        ELSE IF page \notin alive THEN Throw(t, "closed", l) /\ UNCHANGED <<title, clock>>
        ELSE \/ /\ \E ttl \in Titles : title' = [title EXCEPT ![page] = ttl]
                /\ Elapse
                /\ Step(t, <<"L_vh_wait">>, l)
             \/ /\ Throw(t, "timeout", [l EXCEPT !.trace = Append(@, "timeout")])
                /\ Elapse
                /\ UNCHANGED title
  /\ UNCHANGED <<variant, fields, lastHomepageVisit, alive, orphans, op, hist>>

\* visitHomepage: waitForTimeout(8000); simulateHumanBehavior(); waitForTimeout(3000);
\* this.lastHomepageVisit = now   (a wait on a crashed page raises)
LHomeWait(t) ==
  /\ At(t, "L_vh_wait")
  /\ \/ /\ lastHomepageVisit' = loc[t].now
        /\ warmed' = warmed \cup {page}
        /\ lastWarmStart' = loc[t].now
        /\ resetSince' = FALSE
        /\ Step(t, <<"L_vh_title">>, [loc[t] EXCEPT !.trace = Append(@, "warm")])
     \/ /\ Throw(t, "wait", loc[t])
        /\ UNCHANGED <<lastHomepageVisit, warmed, lastWarmStart, resetSince>>
  /\ UNCHANGED <<variant, fields, alive, orphans, title, clock, op, targeted>>

\* visitHomepage: const title = await this.page.title(), for the log line
\* (raises when the page has crashed meanwhile)
LHomeTitle(t) ==
  /\ At(t, "L_vh_title")
  /\ \/ Step(t, <<>>, loc[t])
     \/ Throw(t, "title", loc[t])
  /\ UNCHANGED <<variant, fields, lastHomepageVisit, alive, orphans, title, clock, op, hist>>

\* close(): if (this.browser) { await this.browser.close(); the fields = null;
\* this.isInitialized = false }   (an error of browser.close() is not caught)
LClose(t) ==
  /\ At(t, "L_close")
  /\ IF browser = 0
     THEN /\ Ret(t, <<>>, loc[t])
          /\ UNCHANGED <<fields, alive, orphans, title, warmed, targeted>>
     ELSE \/ /\ LHandles(0, 0, 0, alive \ {browser})
             /\ isInitialized' = FALSE
             /\ Ret(t, <<>>, loc[t])
          \/ /\ LHandles(browser, context, page, alive \ {browser})
             /\ Throw(t, "close", loc[t])
             /\ UNCHANGED isInitialized
  /\ UNCHANGED <<variant, lastHomepageVisit, clock, op, lastWarmStart, resetSince>>

\* a navigation of this.page to a target: its title, or a timeout
LNavigate(t, next, l) ==
  IF page = 0 THEN Throw(t, "typeerror", l) /\ UNCHANGED <<title, clock, targeted>>
  ELSE IF page \notin alive THEN Throw(t, "closed", l) /\ UNCHANGED <<title, clock, targeted>>
  ELSE \/ /\ \E ttl \in Titles : title' = [title EXCEPT ![page] = ttl]
          /\ targeted' = targeted \cup {page}
          /\ Elapse
          /\ Step(t, <<next>>, [l EXCEPT !.trace = Append(@, "nav")])
       \/ /\ Throw(t, "timeout", [l EXCEPT !.trace = Append(@, "timeout")])
          /\ Elapse
          /\ UNCHANGED <<title, targeted>>

\* ---- search(query, options)
LSearch(t) ==
  /\ variant = "long"
  /\ CanStart(t)
  /\ \E lim \in Limits :
       Begin(t, "search", <<>>, lim, <<"L_init", "L_s_vh">>,
             SearchLoc(CallLoc(Loc0, "target")))
  /\ UNCHANGED <<variant, fields, lastHomepageVisit, alive, orphans, title, clock, hist>>

\* search: await this.visitHomepage()
LSearchVisit(t) ==
  /\ At(t, "L_s_vh")
  /\ Step(t, <<"L_vh", "L_s_goto">>, [loc[t] EXCEPT !.force = FALSE])
  /\ UNCHANGED <<variant, fields, lastHomepageVisit, alive, orphans, title, clock, op, hist>>

\* search: await this.page.goto(url, {timeout: 90000})
LSearchGoto(t) ==
  /\ At(t, "L_s_goto")
  /\ LNavigate(t, "L_s_wait", loc[t])
  /\ UNCHANGED <<variant, fields, lastHomepageVisit, alive, orphans, op, warmed,
                 lastWarmStart, resetSince>>

\* search: the waits; if (await this.hasCaptcha()) { this.lastHomepageVisit = 0;
\* await this.visitHomepage(true)
LSearchWait(t) ==
  /\ At(t, "L_s_wait")
  /\ IF hasCaptcha(title[page])
     THEN /\ lastHomepageVisit' = 0
          /\ resetSince' = TRUE
          /\ Step(t, <<"L_vh", "L_s_retry">>,
                  [loc[t] EXCEPT !.force = TRUE, !.t1 = title[page],
                                 !.trace = Append(@, "blocked")])
     ELSE /\ Step(t, <<"L_s_eval">>,
                  [loc[t] EXCEPT !.t1 = title[page], !.trace = Append(@, "clear")])
          /\ UNCHANGED <<lastHomepageVisit, resetSince>>
  /\ UNCHANGED <<variant, fields, alive, orphans, title, clock, op, warmed, targeted,
                 lastWarmStart>>

\* mutation of LSearchRetry: the block check is a loop (while instead of if)
LSearchRetryLooping(t) ==
  /\ At(t, "L_s_retry")
  /\ LNavigate(t, "L_s_wait", loc[t])
  /\ UNCHANGED <<variant, fields, lastHomepageVisit, alive, orphans, op, warmed,
                 lastWarmStart, resetSince>>

\* search: waitForTimeout(5000); await this.page.goto(url, ...); the waits
LSearchRetry(t) ==
  /\ At(t, "L_s_retry")
  /\ LNavigate(t, "L_s_eval", loc[t])
  /\ UNCHANGED <<variant, fields, lastHomepageVisit, alive, orphans, op, warmed,
                 lastWarmStart, resetSince>>

\* search: pageTitle = await this.page.title(); products = await page.evaluate(...)
LSearchEval(t) ==
  /\ At(t, "L_s_eval")
  /\ LET l == [loc[t] EXCEPT !.t2 = IF loc[t].trace[Len(loc[t].trace)] = "nav"
                                    THEN title[page] ELSE @,
                             !.trace = Append(@, "extract")]
     IN IF page \notin alive THEN Throw(t, "closed", loc[t])
        ELSE \/ \E dom \in LDoms :
                  Ret(t, ExtractCards(dom, <<>>, {}, op[t].limit),
                      [l EXCEPT !.document = {dom}])
             \/ Throw(t, "evaluate", l)
  /\ UNCHANGED <<variant, fields, lastHomepageVisit, alive, orphans, title, clock, op, hist>>

\* ---- getProductDetails(productIdOrUrl)
LGetProductDetails(t) ==
  /\ variant = "long"
  /\ CanStart(t)
  /\ \E id \in ProductIds :
       Begin(t, "getProductDetails", <<id>>, 0, <<"L_init", "L_gp_vh">>,
             [CallLoc(Loc0, "target") EXCEPT !.cur = id])
  /\ UNCHANGED <<variant, fields, lastHomepageVisit, alive, orphans, title, clock, hist>>

\* getProductDetails: await this.visitHomepage()
LProductVisit(t) ==
  /\ At(t, "L_gp_vh")
  /\ Step(t, <<"L_vh", "L_gp_goto">>, [loc[t] EXCEPT !.force = FALSE])
  /\ UNCHANGED <<variant, fields, lastHomepageVisit, alive, orphans, title, clock, op, hist>>

\* getProductDetails: await this.page.goto(url, {timeout: 90000})
LProductGoto(t) ==
  /\ At(t, "L_gp_goto")
  /\ LNavigate(t, "L_gp_wait", loc[t])
  /\ UNCHANGED <<variant, fields, lastHomepageVisit, alive, orphans, op, warmed,
                 lastWarmStart, resetSince>>

\* getProductDetails: the waits; if (await this.hasCaptcha()) {
\* waitForTimeout(5000); await this.visitHomepage()
LProductWait(t) ==
  /\ At(t, "L_gp_wait")
  /\ IF hasCaptcha(title[page])
     THEN Step(t, <<"L_vh", "L_gp_retry">>,
               [loc[t] EXCEPT !.force = FALSE, !.t1 = title[page],
                              !.trace = Append(@, "blocked")])
     ELSE Step(t, <<"L_gp_eval">>,
               [loc[t] EXCEPT !.t1 = title[page], !.trace = Append(@, "clear")])
  /\ UNCHANGED <<variant, fields, lastHomepageVisit, alive, orphans, title, clock, op, hist>>

\* getProductDetails: await this.page.goto(url, ...) of the retry
LProductRetry(t) ==
  /\ At(t, "L_gp_retry")
  /\ LNavigate(t, "L_gp_recheck", loc[t])
  /\ UNCHANGED <<variant, fields, lastHomepageVisit, alive, orphans, op, warmed,
                 lastWarmStart, resetSince>>

\* mutation of LProductRecheck: a block that persists also closes the browser
LProductRecheckClosing(t) ==
  /\ At(t, "L_gp_recheck")
  /\ IF hasCaptcha(title[page])
     THEN /\ LHandles(0, 0, 0, alive \ {browser})
          /\ isInitialized' = FALSE
          /\ Throw(t, "blocked", [loc[t] EXCEPT !.t2 = title[page],
                                                !.trace = Append(@, "blocked")])
     ELSE /\ Step(t, <<"L_gp_eval">>, [loc[t] EXCEPT !.t2 = title[page],
                                                     !.trace = Append(@, "clear")])
          /\ UNCHANGED <<fields, alive, orphans, title, warmed, targeted>>
  /\ UNCHANGED <<variant, lastHomepageVisit, clock, op, lastWarmStart, resetSince>>

\* getProductDetails: waitForTimeout(15000); if (await this.hasCaptcha()) throw
LProductRecheck(t) ==
  /\ At(t, "L_gp_recheck")
  /\ IF hasCaptcha(title[page])
     THEN Throw(t, "blocked", [loc[t] EXCEPT !.t2 = title[page],
                                             !.trace = Append(@, "blocked")])
     ELSE Step(t, <<"L_gp_eval">>, [loc[t] EXCEPT !.t2 = title[page],
                                                  !.trace = Append(@, "clear")])
  /\ UNCHANGED <<variant, fields, lastHomepageVisit, alive, orphans, title, clock, op, hist>>

\* getProductDetails: product = await this.page.evaluate(...); product.id from the
\* URL; if (product.title === 'access restricted' || !product.title) throw
LProductEval(t) ==
  /\ At(t, "L_gp_eval")
  /\ LET l == [loc[t] EXCEPT !.trace = Append(@, "extract")]
     IN IF page \notin alive THEN Throw(t, "closed", loc[t])
        ELSE \/ \E h1 \in H1s, id \in {0, loc[t].cur} :
                  IF h1 = "restricted" \/ h1 = "null"
                  THEN Throw(t, "notfound", l)
                  ELSE Ret(t, <<[id |-> id, title |-> h1, error |-> "none"]>>, l)
             \/ Throw(t, "evaluate", l)
  /\ UNCHANGED <<variant, fields, lastHomepageVisit, alive, orphans, title, clock, op, hist>>

\* ---- getProductsList(productIds)
LGetProductsList(t) ==
  /\ variant = "long"
  /\ CanStart(t)
  /\ \E ids \in IdLists :
       Begin(t, "getProductsList", ids, 0, <<"L_gl_loop">>, [Loc0 EXCEPT !.ids = ids])
  /\ UNCHANGED <<variant, fields, lastHomepageVisit, alive, orphans, title, clock, hist>>

\* getProductsList: for (const id of productIds) { try { await getProductDetails(id)
LListLoop(t) ==
  /\ At(t, "L_gl_loop")
  /\ IF loc[t].ids = <<>>
     THEN Ret(t, loc[t].results, loc[t])
     ELSE Step(t, <<"L_init", "L_gp_vh", "L_gl_push">>,
               [CallLoc(loc[t], "target") EXCEPT !.cur = Head(loc[t].ids),
                                                 !.ids = Tail(loc[t].ids)])
  /\ UNCHANGED <<variant, fields, lastHomepageVisit, alive, orphans, title, clock, op, hist>>

\* getProductsList: results.push(product)
LListPush(t) ==
  /\ At(t, "L_gl_push")
  /\ Step(t, <<"L_gl_delay">>,
          EndCall([loc[t] EXCEPT !.results = Append(@, Head(loc[t].ret))]))
  /\ UNCHANGED <<variant, fields, lastHomepageVisit, alive, orphans, title, clock, op, hist>>

\* getProductsList: catch (e) { results.push({ id, error: e.message }) }
LListCatch(t) ==
  /\ At(t, "L_gl_catch")
  /\ Step(t, <<"L_gl_delay">>,
          EndCall([loc[t] EXCEPT !.results = Append(@, [id |-> loc[t].cur, title |-> "null",
                                                        error |-> loc[t].err])]))
  /\ UNCHANGED <<variant, fields, lastHomepageVisit, alive, orphans, title, clock, op, hist>>

\* getProductsList: await this.page.waitForTimeout(2000), outside the try
LListDelay(t) ==
  /\ At(t, "L_gl_delay")
  /\ IF page = 0 THEN Throw(t, "typeerror", loc[t])
     ELSE IF page \notin alive THEN Throw(t, "closed", loc[t])
     ELSE Step(t, <<"L_gl_loop">>, loc[t])
  /\ UNCHANGED <<variant, fields, lastHomepageVisit, alive, orphans, title, clock, op, hist>>

\* a navigation of this.page to the homepage outside visitHomepage
LHomeNavigate(t, next, l) ==
  IF page = 0 THEN Throw(t, "typeerror", l) /\ UNCHANGED <<title, clock>>
  ELSE IF page \notin alive THEN Throw(t, "closed", l) /\ UNCHANGED <<title, clock>>
  ELSE \/ /\ \E ttl \in Titles : title' = [title EXCEPT ![page] = ttl]
          /\ Elapse
          /\ Step(t, <<next>>, l)
       \/ /\ Throw(t, "timeout", [l EXCEPT !.trace = Append(@, "timeout")])
          /\ Elapse
          /\ UNCHANGED title

\* ---- setLocation(city)
LSetLocation(t) ==
  /\ variant = "long"
  /\ CanStart(t)
  /\ Begin(t, "setLocation", <<>>, 0, <<"L_init", "L_sl_goto">>, CallLoc(Loc0, "home"))
  /\ UNCHANGED <<variant, fields, lastHomepageVisit, alive, orphans, title, clock, hist>>

\* setLocation: await this.page.goto('https://www.ozon.ru/', {timeout: 90000})
LLocationGoto(t) ==
  /\ At(t, "L_sl_goto")
  /\ LHomeNavigate(t, "L_sl_ui", loc[t])
  /\ UNCHANGED <<variant, fields, lastHomepageVisit, alive, orphans, op, hist>>

\* setLocation: waitForTimeout(5000), outside the try; then try { the clicks;
\* return {success: true} } catch (e) { }  return {success: false}
LLocationUi(t) ==
  /\ At(t, "L_sl_ui")
  /\ IF page \notin alive THEN Throw(t, "closed", loc[t])
     ELSE \/ \E ok \in {"success", "failure"} :
               Ret(t, <<[id |-> 0, title |-> ok, error |-> "none"]>>, loc[t])
          \/ Throw(t, "wait", loc[t])
  /\ UNCHANGED <<variant, fields, lastHomepageVisit, alive, orphans, title, clock, op, hist>>

\* ---- getFilters(query)
LGetFilters(t) ==
  /\ variant = "long"
  /\ CanStart(t)
  /\ Begin(t, "getFilters", <<>>, 0, <<"L_init", "L_gf_goto">>, CallLoc(Loc0, "target"))
  /\ UNCHANGED <<variant, fields, lastHomepageVisit, alive, orphans, title, clock, hist>>

\* getFilters: await this.page.goto(url, {timeout: 90000})
LFiltersGoto(t) ==
  /\ At(t, "L_gf_goto")
  /\ LNavigate(t, "L_gf_eval", loc[t])
  /\ UNCHANGED <<variant, fields, lastHomepageVisit, alive, orphans, op, warmed,
                 lastWarmStart, resetSince>>

\* getFilters: waitForTimeout(10000); filters = await this.page.evaluate(...)
LFiltersEval(t) ==
  /\ At(t, "L_gf_eval")
  /\ LET l == [loc[t] EXCEPT !.t1 = title[page], !.trace = Append(@, "extract")]
     IN IF page \notin alive THEN Throw(t, "closed", loc[t])
        ELSE \/ Ret(t, <<>>, l)
             \/ Throw(t, "evaluate", l)
  /\ UNCHANGED <<variant, fields, lastHomepageVisit, alive, orphans, title, clock, op, hist>>

\* ---- getCategories()
LGetCategories(t) ==
  /\ variant = "long"
  /\ CanStart(t)
  /\ Begin(t, "getCategories", <<>>, 0, <<"L_init", "L_gc_goto">>, CallLoc(Loc0, "home"))
  /\ UNCHANGED <<variant, fields, lastHomepageVisit, alive, orphans, title, clock, hist>>

\* getCategories: await this.page.goto('https://www.ozon.ru/', {timeout: 90000})
LCategoriesGoto(t) ==
  /\ At(t, "L_gc_goto")
  /\ LHomeNavigate(t, "L_gc_eval", loc[t])
  /\ UNCHANGED <<variant, fields, lastHomepageVisit, alive, orphans, op, hist>>

\* getCategories: waitForTimeout(5000); categories = await this.page.evaluate(...)
LCategoriesEval(t) ==
  /\ At(t, "L_gc_eval")
  /\ IF page \notin alive THEN Throw(t, "closed", loc[t])
     ELSE \/ Ret(t, <<>>, loc[t])
          \/ Throw(t, "evaluate", loc[t])
  /\ UNCHANGED <<variant, fields, lastHomepageVisit, alive, orphans, title, clock, op, hist>>

\* ---- close(), called by the user
LCloseOp(t) ==
  /\ variant = "long"
  /\ CanStart(t)
  /\ Begin(t, "close", <<>>, 0, <<"L_close">>, Loc0)
  /\ UNCHANGED <<variant, fields, lastHomepageVisit, alive, orphans, title, clock, hist>>

\* ---- the caller takes the result of the operation that ended.  Every
\* operation reads a title only after a navigation of its own, so what the
\* pages show between two operations is not kept, nor which of them the ended
\* operation navigated to a target
Collect(t) ==
  /\ stk[t] = <<>>
  /\ op[t] # NoOp
  /\ op' = [op EXCEPT ![t] = NoOp]
  /\ result' = [result EXCEPT ![t] = NoResult]
  /\ loc' = [loc EXCEPT ![t] = Loc0]
  /\ title' = [b \in BrowserIds |-> NoTitle]
  /\ targeted' = {}
  /\ UNCHANGED <<variant, fields, lastHomepageVisit, alive, orphans, clock, stk, warmed,
                 lastWarmStart, resetSince>>

\* ---- time passes between two operations
Tick ==
  /\ variant = "long"
  /\ Idle
  /\ \A u \in Tasks : op[u] = NoOp
  /\ clock < MaxClock
  /\ clock' = clock + 1
  /\ UNCHANGED <<variant, fields, lastHomepageVisit, alive, orphans, title, stk, loc, op,
                 result, hist>>

\* ------------------------------------------------------------------ system
Init ==
  /\ variant \in {"fresh", "long"}
  /\ browser = 0 /\ context = 0 /\ page = 0
  /\ isInitialized = FALSE
  /\ lastHomepageVisit = 0
  /\ alive = {}
  /\ orphans = 0
  /\ title = [b \in BrowserIds |-> NoTitle]
  /\ clock = 1
  /\ stk = [t \in Tasks |-> <<>>]
  /\ loc = [t \in Tasks |-> Loc0]
  /\ op = [t \in Tasks |-> NoOp]
  /\ result = [t \in Tasks |-> NoResult]
  /\ warmed = {} /\ targeted = {}
  /\ lastWarmStart = 0
  /\ resetSince = FALSE

InitFresh == Init /\ variant = "fresh"
InitLong == Init /\ variant = "long"

NextFresh ==
  \E t \in Tasks :
    \/ FClose(t) \/ FCloseDone(t) \/ FCreateBrowser(t) \/ FLaunch(t)
    \/ FNewContext(t) \/ FNewPage(t) \/ FLoadPage(t) \/ FGoto(t) \/ FTitle(t)
    \/ FSearch(t) \/ FSearchCheck(t) \/ FSearchBlocked(t) \/ FSearchEval(t)
    \/ FSearchRet(t) \/ FSearchCatch(t) \/ FSearchRethrow(t)
    \/ FGetProductDetails(t) \/ FProductHome(t) \/ FProductGoto(t)
    \/ FProductTitle(t) \/ FProductBlocked(t) \/ FProductEval(t) \/ FProductRet(t)
    \/ FProductCatch(t) \/ FProductRethrow(t)
    \/ FGetProductsList(t) \/ FListLoop(t) \/ FListPush(t) \/ FListCatch(t)
    \/ FGetCategories(t) \/ FCategoriesEval(t) \/ FCategoriesRet(t)
    \/ FCategoriesCatch(t) \/ FCategoriesRethrow(t)
    \/ FSetLocation(t) \/ FLocationRet(t) \/ FGetFilters(t) \/ FFiltersRet(t)
    \/ FCloseOp(t) \/ Collect(t)

NextLong ==
  \/ Tick
  \/ \E t \in Tasks :
    \/ LInit(t) \/ LLaunch(t) \/ LNewContext(t) \/ LNewPage(t) \/ LInitDone(t)
    \/ LVisitHomepage(t) \/ LHomeGoto(t) \/ LHomeWait(t) \/ LHomeTitle(t) \/ LClose(t)
    \/ LSearch(t) \/ LSearchVisit(t) \/ LSearchGoto(t) \/ LSearchWait(t)
    \/ LSearchRetry(t) \/ LSearchEval(t)
    \/ LGetProductDetails(t) \/ LProductVisit(t) \/ LProductGoto(t)
    \/ LProductWait(t) \/ LProductRetry(t) \/ LProductRecheck(t) \/ LProductEval(t)
    \/ LGetProductsList(t) \/ LListLoop(t) \/ LListPush(t) \/ LListCatch(t)
    \/ LListDelay(t)
    \/ LSetLocation(t) \/ LLocationGoto(t) \/ LLocationUi(t)
    \/ LGetFilters(t) \/ LFiltersGoto(t) \/ LFiltersEval(t)
    \/ LGetCategories(t) \/ LCategoriesGoto(t) \/ LCategoriesEval(t)
    \/ LCloseOp(t) \/ Collect(t)

\* two callers of one fresh-session controller, one getCategories each
NextOverlap ==
  \E t \in Tasks :
    \/ FGetCategoriesOverlapped(t)
    \/ FClose(t) \/ FCloseDone(t) \/ FCreateBrowser(t) \/ FLaunch(t)
    \/ FNewContext(t) \/ FNewPage(t) \/ FLoadPage(t) \/ FGoto(t) \/ FTitle(t)
    \/ FCategoriesEval(t) \/ FCategoriesRet(t)
    \/ FCategoriesCatch(t) \/ FCategoriesRethrow(t)

Next == NextFresh \/ NextLong

Spec == Init /\ [][Next]_vars
SpecFresh == InitFresh /\ [][NextFresh]_vars
SpecLong == InitLong /\ [][NextLong]_vars
SpecOverlap == InitFresh /\ [][NextOverlap]_vars

\* ------------------------------------------------------------------ properties
\* task t's public operation has ended and its result is there to take
Done(t) == stk[t] = <<>> /\ op[t] # NoOp
Returned(t) == Done(t) /\ result[t].kind = "returned"
Threw(t, e) == Done(t) /\ result[t].kind = "threw" /\ result[t].err = e

\* browser processes launched and not yet closed
LiveProcesses == Cardinality(alive) + orphans

\* position of the first "blocked" in a trace (0: none)
FirstBlocked(tr) ==
  IF \E i \in 1..Len(tr) : tr[i] = "blocked"
  THEN Min({i \in 1..Len(tr) : tr[i] = "blocked"}) ELSE 0

\* C1: between two operations of one controller, at most one browser process
\* that it launched and has not closed exists.
C1_AtMostOneLiveProcess == Idle => LiveProcesses <= 1

\* C2: in the fresh-session client, when search, getProductDetails,
\* getProductsList or getCategories has finished, however it finished, no
\* browser process is left and browser, context and page are null.
C2_ReleasedOnEveryExit ==
  \A t \in Tasks :
    (/\ variant = "fresh"
     /\ Done(t)
     /\ op[t].name \in {"search", "getProductDetails", "getProductsList", "getCategories"})
    => LiveProcesses = 0 /\ browser = 0 /\ context = 0 /\ page = 0

\* C2, its case: a search of the fresh-session client launched a browser and
\* then ended by throwing the navigation timeout.
C2_Witness ==
  /\ variant = "fresh"
  /\ op[1].name = "search"
  /\ Threw(1, "timeout")
  /\ LiveProcesses = 0

\* C3: close() never throws, in either client.
C3_CloseNeverThrows ==
  \A t \in Tasks : Done(t) /\ op[t].name = "close" => result[t].kind = "returned"

\* C4: getProductsList never throws and returns one entry per id given.
C4_ListNeverThrows ==
  \A t \in Tasks :
    Done(t) /\ op[t].name = "getProductsList"
    => result[t].kind = "returned" /\ Len(result[t].val) = Len(op[t].ids)

\* the search of task t ran on a session that existed when it began, met no
\* block, and the timestamp had not been zeroed since the last warm-up
QuietSearch(t) ==
  /\ variant = "long"
  /\ Done(t)
  /\ op[t].name = "search"
  /\ loc[t].startInit
  /\ ~loc[t].startReset
  /\ ~("Antibot" \in loc[t].t1 \/ "Captcha" \in loc[t].t1 \/ "ogranichen" \in loc[t].t1)

\* C5 (amended): a search of the long-lived client on an existing session
\* that meets no block, the timestamp not zeroed by an earlier block, attempts
\* no warm-up when it begins less than 5 minutes after the instant the last
\* completed warm-up began, and attempts exactly one otherwise.
C5_FreshnessWindow ==
  \A t \in Tasks :
    QuietSearch(t)
    => loc[t].attempts =
         IF (loc[t].startClock - loc[t].startWarm) * MsPerTick < 5 * 60 * 1000
         THEN 0 ELSE 1

\* C5, its case: a search begun a full window after the last warm-up re-warmed
\* once and returned.
C5_Witness ==
  /\ QuietSearch(1)
  /\ Returned(1)
  /\ (loc[1].startClock - loc[1].startWarm) * MsPerTick >= 5 * 60 * 1000
  /\ loc[1].attempts = 1

\* C5 as first stated: a search on an existing session that begins within the
\* window of the last completed warm-up performs no warm-up.
C5_AsStated ==
  \A t \in Tasks :
    (/\ variant = "long"
     /\ Done(t)
     /\ op[t].name = "search"
     /\ loc[t].startInit
     /\ (loc[t].startClock - loc[t].startWarm) * MsPerTick < 5 * 60 * 1000)
    => loc[t].attempts = 0

\* C6: an operation that detected a block and went on to return a result or
\* to fail as blocked has, right after the detection, warmed up, navigated to
\* the target again and checked the block signature again.
C6_RecoveryProtocol ==
  \A t \in Tasks :
    (/\ Done(t)
     /\ op[t].name \in {"search", "getProductDetails"}
     /\ FirstBlocked(loc[t].trace) > 0
     /\ (result[t].kind = "returned" \/ result[t].err = "blocked"))
    => LET tr == loc[t].trace
           i == FirstBlocked(tr)
       IN /\ Len(tr) >= i + 3
          /\ tr[i + 1] = "warm"
          /\ tr[i + 2] = "nav"
          /\ tr[i + 3] \in {"blocked", "clear"}

\* C7: a search of the long-lived client that still sees the block signature
\* after its retry raises the blocked error.
C7_PersistentBlockRaises ==
  \A t \in Tasks :
    (/\ variant = "long"
     /\ Done(t)
     /\ op[t].name = "search"
     /\ hasCaptcha(loc[t].t1)
     /\ hasCaptcha(loc[t].t2))
    => result[t].kind = "threw" /\ result[t].err = "blocked"

\* C8: in the fresh-session client a search whose page title holds 'Antibot'
\* or the Cyrillic 'ogranichen' returns the empty list and does not throw.
C8_BlockedSearchReturnsEmpty ==
  \A t \in Tasks :
    (/\ variant = "fresh"
     /\ Done(t)
     /\ op[t].name = "search"
     /\ ("Antibot" \in loc[t].t1 \/ "ogranichen" \in loc[t].t1))
    => result[t].kind = "returned" /\ result[t].val = <<>>

\* C8, its case: a search read a title with the Cyrillic keyword and returned.
C8_Witness ==
  /\ variant = "fresh"
  /\ op[1].name = "search"
  /\ Returned(1)
  /\ "ogranichen" \in loc[1].t1
  /\ result[1].val = <<>>

\* C9: a session is navigated to a target page only after the homepage
\* warm-up has completed in that same session.
C9_WarmBeforeTarget == targeted \subseteq warmed

\* C10: in the long-lived client a step of anything but close() closes no
\* browser process, sets no handle to null, and leaves the three handles of
\* an initialized controller as they are.
C10_KeptAlive ==
  [][(variant = "long" /\ \A t \in Tasks : ~At(t, "L_close"))
     => /\ LiveProcesses' >= LiveProcesses
        /\ (browser # 0 => browser' # 0)
        /\ (context # 0 => context' # 0)
        /\ (page # 0 => page' # 0)
        /\ (browser \in alive => browser' \in alive')
        /\ (isInitialized
            => browser' = browser /\ context' = context /\ page' = page)]_vars

\* C10, its case: getProductDetails failed as blocked on an initialized
\* controller, whose browser is still running.
C10_Witness ==
  /\ variant = "long"
  /\ op[1].name = "getProductDetails"
  /\ Threw(1, "blocked")
  /\ isInitialized
  /\ browser # 0 /\ browser \in alive
  /\ page = browser

\* C11: once an operation has failed because the block signature persisted,
\* no browser process of its session is left alive.
C11_DestroyedOnFatalBlock ==
  \A t \in Tasks : Threw(t, "blocked") => LiveProcesses = 0 /\ browser \notin alive

\* the last event of a trace ("none": no event)
LastEvent(tr) == IF tr = <<>> THEN "none" ELSE tr[Len(tr)]

\* C12: for search and getProductDetails of both clients, the timeout error
\* reaches the caller exactly when the operation ended at a navigation that
\* timed out, the blocked outcome (the blocked error, or the empty list of the
\* fresh-session search) only when it ended at a detected block, and so
\* neither is reported as the other.
C12_TimeoutAndBlockDistinct ==
  \A t \in Tasks :
    (Done(t) /\ op[t].name \in {"search", "getProductDetails"})
    => /\ (LastEvent(loc[t].trace) = "timeout") <=> (result[t].kind = "threw" /\ result[t].err = "timeout")
       /\ (result[t].kind = "threw" /\ result[t].err = "blocked")
            => LastEvent(loc[t].trace) = "blocked"
       /\ (variant = "fresh" /\ op[t].name = "search" /\ LastEvent(loc[t].trace) = "blocked")
            => result[t].kind = "returned" /\ result[t].val = <<>>

\* C12, its case: getProductDetails of the fresh-session client timed out on
\* the product page after a homepage that loaded, and threw the timeout.
C12_Witness ==
  /\ variant = "fresh"
  /\ op[1].name = "getProductDetails"
  /\ Threw(1, "timeout")
  /\ loc[1].trace = <<"warm", "timeout">>

\* C13: a record that getProductDetails returns has a non-null id.
C13_IdNeverNull ==
  \A t \in Tasks :
    Returned(t) /\ op[t].name = "getProductDetails" => result[t].val[1].id # 0

\* C14: a record that getProductDetails returns has a title: a page without
\* h1 text makes it throw instead.
C14_TitleNeverNull ==
  \A t \in Tasks :
    Returned(t) /\ op[t].name = "getProductDetails" => result[t].val[1].title # "null"

\* C15: setLocation never throws: it ends by returning a record.
C15_SetLocationNeverThrows ==
  \A t \in Tasks : Done(t) /\ op[t].name = "setLocation" => result[t].kind = "returned"

\* C16: within one operation no browser launch is attempted once a launch of
\* that operation has failed.
C16_NoRelaunchAfterFailure ==
  \A t \in Tasks :
    (At(t, "F_cb_launch") \/ At(t, "L_init_launch"))
    => \A i \in 1..Len(loc[t].results) : loc[t].results[i].error # "launch"

\* task t is at the head of the loop of getProductsList
AtListLoop(t) == At(t, "F_gl_loop") \/ At(t, "L_gl_loop")

\* C17: getProductsList comes back to the head of its loop with an item
\* fetched and an item still to fetch only by the step of the pacing delay.
C17_DelayBetweenItems ==
  [][\A t \in Tasks :
       (/\ ~AtListLoop(t)
        /\ stk'[t] # <<>>
        /\ Head(stk'[t]) \in {"F_gl_loop", "L_gl_loop"}
        /\ loc'[t].results # <<>>
        /\ loc'[t].ids # <<>>)
       => At(t, "L_gl_delay")]_vars

\* C18: getProductsList ends, by a return or by a failure, only when it has
\* fetched every id it was given (each id is taken from the list once).
C18_OneFetchPerId ==
  [][\A t \in Tasks :
       (op[t].name = "getProductsList" /\ stk[t] # <<>> /\ stk'[t] = <<>>)
       => loc[t].ids = <<>>]_vars

\* an operation that has begun keeps taking steps: every await settles
FairFresh == SpecFresh /\ WF_vars(~Idle /\ NextFresh)
FairLong == SpecLong /\ WF_vars(~Idle /\ NextLong)

\* C18, the part that holds: an operation that has begun ends.
C18_Terminates == \A t \in Tasks : (stk[t] # <<>>) ~> (stk[t] = <<>>)

\* candidate i of the document is the first with its id and can be read
Readable(dom, i) ==
  /\ dom[i].href # 0
  /\ dom[i].body \in {"priced", "unpriced"}
  /\ \A j \in 1..(i - 1) : dom[j].href # dom[i].href

\* C19: a search whose extraction ran over a document returns, whatever the
\* candidates were: no record comes from a candidate that raised, every
\* readable candidate reached before the limit has its record although an
\* earlier candidate raised, and the record of a candidate without a parsable
\* price has price null.
C19_ContainedPerRecord ==
  \A t \in Tasks :
    (Done(t) /\ op[t].name = "search" /\ loc[t].document # {})
    => LET dom == CHOOSE d \in loc[t].document : TRUE
           items == result[t].val
       IN /\ result[t].kind = "returned"
          /\ \A k \in 1..Len(items) :
               \E i \in 1..Len(dom) :
                 /\ Readable(dom, i)
                 /\ dom[i].href = items[k].id
                 /\ (items[k].price = "null") <=> (dom[i].body = "unpriced")
          /\ \A i \in 1..Len(dom) :
               (Readable(dom, i)
                  /\ Cardinality({j \in 1..(i - 1) : Readable(dom, j)}) < op[t].limit)
               => \E k \in 1..Len(items) : items[k].id = dom[i].href

C19_Witness ==
  /\ Returned(1) /\ op[1].name = "search"
  /\ loc[1].document = {<<[href |-> 1, body |-> "raises"], [href |-> 2, body |-> "unpriced"]>>}
  /\ result[1].val = <<[id |-> 2, title |-> "name", error |-> "none", price |-> "null"]>>

\* the title of the page the operation of task t works on
CurrentTitle(t) == title[IF variant = "fresh" THEN loc[t].lpage ELSE page]

\* C20: in search and getProductDetails of both clients, no step runs the
\* extraction while the title of the current page has one of the keywords the
\* client looks for ("Antibot", the Cyrillic word, and for the long-lived
\* client "Captcha").
C20_ExtractOnlyUnblocked ==
  [][\A t \in Tasks :
       (/\ op[t].name \in {"search", "getProductDetails"}
        /\ Len(loc'[t].trace) = Len(loc[t].trace) + 1
        /\ LastEvent(loc'[t].trace) = "extract")
       => /\ "Antibot" \notin CurrentTitle(t)
          /\ "ogranichen" \notin CurrentTitle(t)
          /\ variant = "long" => "Captcha" \notin CurrentTitle(t)]_vars

\* C21: every title a page has had is classified the same way by the
\* long-lived client's hasCaptcha and by the fresh-session client's title
\* checks of search and getProductDetails.
C21_SameBlockPredicate ==
  \A b \in BrowserIds : title[b] \in Titles => (hasCaptcha(title[b]) <=> FBlocked(title[b]))

\* C22: once close() has returned or thrown, no session is recorded: browser,
\* context and page are null and isInitialized is false.
C22_CloseUninitializes ==
  \A t \in Tasks :
    (Done(t) /\ op[t].name = "close")
    => browser = 0 /\ context = 0 /\ page = 0 /\ ~isInitialized

Count(tr, e) == Cardinality({i \in 1..Len(tr) : tr[i] = e})

\* C23: at every moment of a call of search or getProductDetails, the target
\* has been navigated to at most twice, at most one warm-up has been completed
\* after a block was seen, and at most one observed block has been followed by
\* further steps (the recovery branch).
C23_RecoveryBounded ==
  \A t \in Tasks :
    op[t].name \in {"search", "getProductDetails"}
    => LET tr == loc[t].trace
       IN /\ Count(tr, "nav") <= 2
          /\ Cardinality({i \in 1..Len(tr) : tr[i] = "warm" /\ FirstBlocked(tr) \in 1..(i - 1)}) <= 1
          /\ Cardinality({i \in 1..(Len(tr) - 1) : tr[i] = "blocked"}) <= 1

C23_Witness ==
  /\ variant = "long" /\ op[1].name = "getProductDetails" /\ Threw(1, "blocked")
  /\ Count(loc[1].trace, "nav") = 2 /\ Count(loc[1].trace, "blocked") = 2

\* C24: whenever no operation is in progress, browser, context and page are
\* all null or all non-null, and isInitialized is true only if all three are
\* non-null.
C24_SessionConsistent ==
  Idle => /\ \/ browser = 0 /\ context = 0 /\ page = 0
             \/ browser # 0 /\ context # 0 /\ page # 0
          /\ isInitialized => browser # 0 /\ context # 0 /\ page # 0

\* C25: a step in which the homepage navigation or a wait of the warm-up
\* raises leaves lastHomepageVisit as it was, and a step that skips the
\* warm-up leaves lastHomepageVisit, the page and its title as they were.
C25_FailedWarmupKeepsTimestamp ==
  [][\A t \in Tasks :
       /\ ((At(t, "L_vh_goto") \/ At(t, "L_vh_wait"))
           /\ (stk'[t] = <<>> \/ Head(stk'[t]) \notin {"L_vh_wait", "L_vh_title"}))
          => lastHomepageVisit' = lastHomepageVisit
       /\ (At(t, "L_vh") /\ (stk'[t] = <<>> \/ Head(stk'[t]) # "L_vh_goto"))
          => /\ lastHomepageVisit' = lastHomepageVisit
             /\ page' = page
             /\ title' = title]_vars

\* an earlier warm-up succeeded, time has passed, and the warm-up that opens a
\* search has failed in its wait: the timestamp is still the earlier one
C25_Witness ==
  /\ variant = "long" /\ op[1].name = "search" /\ Threw(1, "wait")
  /\ loc[1].trace = <<>> /\ loc[1].attempts = 1
  /\ lastHomepageVisit > 0 /\ lastHomepageVisit < clock

\* where an id first occurs in a document
FirstOccurrence(dom, id) == Min({i \in 1..Len(dom) : dom[i].href = id})

\* C26: a search that returns gives at most `limit` records, each with an id,
\* no two with the same id, and in the order in which their ids first occur in
\* the document they were extracted from.
C26_SearchResultShape ==
  \A t \in Tasks :
    (Returned(t) /\ op[t].name = "search")
    => LET items == result[t].val
       IN /\ Len(items) <= op[t].limit
          /\ \A k \in 1..Len(items) : items[k].id # 0
          /\ \A j, k \in 1..Len(items) : j # k => items[j].id # items[k].id
          /\ items # <<>> => loc[t].document # {}
          /\ \A d \in loc[t].document :
               /\ \A k \in 1..Len(items) : \E i \in 1..Len(d) : d[i].href = items[k].id
               /\ \A j, k \in 1..Len(items) :
                    j < k => FirstOccurrence(d, items[j].id) < FirstOccurrence(d, items[k].id)

C26_Witness ==
  /\ variant = "long" /\ Returned(1) /\ op[1].name = "search" /\ op[1].limit = 2
  /\ loc[1].document = {<<[href |-> 2, body |-> "priced"], [href |-> 1, body |-> "unpriced"]>>}
  /\ Len(result[1].val) = 2 /\ result[1].val[1].id = 2 /\ result[1].val[2].id = 1

\* task t works on a page of process b and has not come to its own close
Using(t, b) ==
  /\ stk[t] # <<>>
  /\ loc[t].lpage = b
  /\ Top(t) \in {"F_lp_goto", "F_lp_title", "F_gc_eval"}

\* C27 as stated: two operations started on one fresh-session controller
\* without waiting leave no launched process alive once both have completed,
\* and no close() of one ends the process the other is working on.
C27_OverlapSafe ==
  /\ []((\A t \in Tasks : Done(t)) => LiveProcesses = 0)
  /\ [][\A u \in Tasks :
          (At(u, "F_close") /\ stk'[u] # stk[u] /\ browser \in alive)
          => \A t \in Tasks \ {u} : ~Using(t, browser)]_vars

\* no operation was started while another was running
Serialized == \A t \in Tasks : ~loc[t].overlapped

\* C27, amended: when each operation on a fresh-session controller is started
\* only after the one before has finished, no launched process is alive
\* whenever no operation is running, and no operation ends because its page
\* was closed under it.
C27_SerializedSafe ==
  (Serialized /\ Idle)
  => /\ LiveProcesses = 0
     /\ \A t \in Tasks : Done(t) => result[t].err \notin {"closed", "typeerror"}

\* both callers ran getCategories one after the other; the second failed in
\* its evaluation and its catch released the browser
C27_Witness ==
  /\ Serialized /\ Returned(1) /\ Threw(2, "evaluate")
  /\ loc[2].trace = <<"warm">> /\ LiveProcesses = 0

\* the first half of C27 as stated, on its own
C27_LeakFree == (\A t \in Tasks : Done(t)) => LiveProcesses = 0

====
